---- MODULE Spec2Model ----
(***************************************************************************)
(* Model of cv_pom: the POM class (src/cv_pom/cv_pom.py), i.e. the merge   *)
(* of detector output with OCR output into the element store               *)
(* (convert_to_cvpom) and the recursive relational query engine            *)
(* (get_elements, _parse_query, _filter_query and its geometry helpers).   *)
(* The driver built on it (src/cv_pom/cv_pom_driver.py: element, elements, *)
(* swipe_to) has a specification of its own.                               *)
(*                                                                         *)
(* Python values are modelled as tagged records [type, v]; Python strings  *)
(* that are matched character by character (labels, texts, rule values)    *)
(* are sequences of one-character strings; dictionaries are sequences of   *)
(* <<key, value>> pairs in insertion order.  Floating point numbers coming *)
(* from the detector and the OCR reader are modelled in half pixels (the   *)
(* integer h stands for h/2), confidences in hundredths.                   *)
(***************************************************************************)
EXTENDS Integers, Sequences, FiniteSets, TLC

VARIABLES
    elements,      \* POM.elements: the element store
    predict_out,   \* what self.model.predict(source) returns for the source image
    readtext_out,  \* what self._reader.readtext(image=source, ...) returns for it
    ocr_props,     \* the ocr_props argument of the last conversion pass
    query_dict,    \* the argument of the last get_elements call
    ret,           \* what the last call returned (or the exception it raised)
    fn_args,       \* arguments of the last direct call of a pure helper
    fn_ret,        \* its return value
    driver         \* the CVPOMDriver: its kwargs and the frame of a running swipe_to

vars == <<elements, predict_out, readtext_out, ocr_props, query_dict, ret, fn_args, fn_ret,
          driver>>

-----------------------------------------------------------------------------
(* Bounds of the model *)

\* the source image shows at most MaxBoxes boxes, detector rows and OCR
\* fragments together
MaxBoxes == 3

MaxStrLen == 2

\* a source holds at most MaxFrames images (a picture: one; a video or a
\* directory of pictures: several)
MaxFrames == 2

\* the coordinates of the rects handed to the geometry helpers: 0..MaxCoord
MaxCoord == 3

-----------------------------------------------------------------------------
(* Python values *)

None == [type |-> "NoneType", v |-> <<>>]

Str(s) == [type |-> "str", v |-> s]

Bool(b) == [type |-> "bool", v |-> b]

Dict(items) == [type |-> "dict", v |-> items]

List(items) == [type |-> "list", v |-> items]

Exception(msg) == [type |-> "Exception", v |-> msg]

IsNone(x) == x.type = "NoneType"

isinstance_dict(x) == x.type = "dict"

\* Python truthiness: bool(x)
bool(x) ==
    CASE x.type = "bool" -> x.v
      [] x.type = "NoneType" -> FALSE
      [] OTHER -> Len(x.v) > 0

\* key in d
HasKey(d, key) == \E i \in 1..Len(d.v) : d.v[i][1] = key

\* d[key]
GetItem(d, key) == d.v[CHOOSE i \in 1..Len(d.v) : d.v[i][1] = key][2]

\* int(x) of a non-integral number given in half pixels: truncation toward zero
int(h) == IF h >= 0 THEN h \div 2 ELSE -((-h) \div 2)

Digits == <<"0", "1", "2", "3", "4", "5", "6", "7", "8", "9">>

\* str(n) of a natural number: its decimal digits
RECURSIVE str(_)
str(n) == IF n < 10 THEN <<Digits[n + 1]>> ELSE str(n \div 10) \o <<Digits[(n % 10) + 1]>>

\* c.lower() of one character (the letters of the model's alphabet)
lower_char(c) ==
    CASE c = "A" -> "a"
      [] c = "B" -> "b"
      [] c = "H" -> "h"
      [] c = "W" -> "w"
      [] OTHER -> c

\* s.lower()
lower(s) == [i \in 1..Len(s) |-> lower_char(s[i])]

\* expected in value (substring test)
str_in(expected, value) ==
    \E i \in 1..(Len(value) - Len(expected) + 1) :
        SubSeq(value, i, i + Len(expected) - 1) = expected

\* s[:-1]
DropLast(s) == IF Len(s) = 0 THEN s ELSE SubSeq(s, 1, Len(s) - 1)

\* list(dict.fromkeys(seq)): first occurrences, in order
RECURSIVE fromkeys(_)
fromkeys(seq) ==
    IF Len(seq) = 0 THEN <<>>
    ELSE LET init == fromkeys(SubSeq(seq, 1, Len(seq) - 1))
             last == seq[Len(seq)]
         IN IF \E i \in 1..Len(init) : init[i] = last THEN init ELSE Append(init, last)

\* the concatenation of a sequence of sequences
RECURSIVE Flatten(_)
Flatten(ss) == IF Len(ss) = 0 THEN <<>> ELSE Head(ss) \o Flatten(Tail(ss))

-----------------------------------------------------------------------------
(* Data classes *)

QueryValue(value, case_sensitive, contains) ==
    [type |-> "QueryValue", value |-> value, case_sensitive |-> case_sensitive, contains |-> contains]

\* Query(): every slot None
Query == [type |-> "Query", label |-> None, text |-> None, parent |-> None, child |-> None,
          left |-> None, right |-> None, up |-> None, down |-> None]

POMElement(id, label, coords_tl, coords_br, center, bounding_rect, confidence, attrs) ==
    [id |-> id, label |-> label, coords_tl |-> coords_tl, coords_br |-> coords_br,
     center |-> center, bounding_rect |-> bounding_rect, confidence |-> confidence,
     attrs |-> attrs]

\* attrs is a dict with string keys: the set of its <<key, value>> items
HasAttr(element, key) == \E kv \in element.attrs : kv[1] = key

Attr(element, key) == (CHOOSE kv \in element.attrs : kv[1] = key)[2]

\* the assignment skipped for an empty value: no key for an empty text
SetAttr_skips_empty(element, key, value) ==
    IF Len(value) = 0 THEN element
    ELSE [element EXCEPT !.attrs = {kv \in @ : kv[1] # key} \cup {<<key, value>>}]

SetAttr(element, key, value) ==
    [element EXCEPT !.attrs = {kv \in @ : kv[1] # key} \cup {<<key, value>>}]

\* cv.boundingRect(np.array([tl, br])): (x, y, w, h) of the two points, inclusive
boundingRect(tl, br) ==
    LET xmin == IF tl[1] <= br[1] THEN tl[1] ELSE br[1]
        xmax == IF tl[1] <= br[1] THEN br[1] ELSE tl[1]
        ymin == IF tl[2] <= br[2] THEN tl[2] ELSE br[2]
        ymax == IF tl[2] <= br[2] THEN br[2] ELSE tl[2]
    IN <<xmin, ymin, xmax - xmin + 1, ymax - ymin + 1>>

-----------------------------------------------------------------------------
(* Geometry *)

\* the test with <= and >=: rects that only touch do not share space
_do_rect_share_space_touching_apart(rect1, rect2) ==
    ~(\/ rect1[3] <= rect2[1]
      \/ rect1[1] >= rect2[3]
      \/ rect1[4] <= rect2[2]
      \/ rect1[2] >= rect2[4])

_do_rect_share_space(rect1, rect2) ==
    ~(\/ rect1[3] < rect2[1]
      \/ rect1[1] > rect2[3]
      \/ rect1[4] < rect2[2]
      \/ rect1[2] > rect2[4])

\* containment with <= and >=: a rect touching the boundary counts as contained
_do_rect1_contain_rect2_inclusive(rect1, rect2) ==
    /\ rect2[3] <= rect1[3]
    /\ rect2[1] >= rect1[1]
    /\ rect2[4] <= rect1[4]
    /\ rect2[2] >= rect1[2]

\* containment with the right side compared by <=: a rect touching the right
\* border counts as contained
_do_rect1_contain_rect2_right_inclusive(rect1, rect2) ==
    /\ rect2[3] <= rect1[3]
    /\ rect2[1] > rect1[1]
    /\ rect2[4] < rect1[4]
    /\ rect2[2] > rect1[2]

_do_rect1_contain_rect2(rect1, rect2) ==
    /\ rect2[3] < rect1[3]
    /\ rect2[1] > rect1[1]
    /\ rect2[4] < rect1[4]
    /\ rect2[2] > rect1[2]

\* [coords_tl[0], coords_tl[1], coords_br[0], coords_br[1]]
RectOf(element) ==
    <<element.coords_tl[1], element.coords_tl[2], element.coords_br[1], element.coords_br[2]>>

_find_contained_rects(element_1, els) ==
    LET contained(element) == _do_rect1_contain_rect2(RectOf(element_1), RectOf(element))
    IN SelectSeq(els, contained)

\* the test with the sides compared by >= and <=: a candidate that starts in
\* the column (or row) where the anchor ends passes
SideTest_border_inclusive(element_1, element, side) ==
    \/ /\ side = "right"
       /\ element.coords_tl[1] >= element_1.coords_br[1]
       /\ element.coords_tl[2] < element_1.center[2]
       /\ element_1.center[2] < element.coords_br[2]
    \/ /\ side = "left"
       /\ element_1.coords_tl[1] >= element.coords_br[1]
       /\ element.coords_tl[2] < element_1.center[2]
       /\ element_1.center[2] < element.coords_br[2]
    \/ /\ side = "up"
       /\ element_1.coords_tl[2] <= element.coords_br[2]
       /\ element.coords_tl[1] < element_1.center[1]
       /\ element_1.center[1] < element.coords_br[1]
    \/ /\ side = "down"
       /\ element_1.coords_br[2] >= element.coords_tl[2]
       /\ element.coords_tl[1] < element_1.center[1]
       /\ element_1.center[1] < element.coords_br[1]

\* the test with the center compared by <=: a candidate whose border lies on
\* the anchor's center line passes
SideTest_center_inclusive(element_1, element, side) ==
    \/ /\ side = "right"
       /\ element.coords_tl[1] > element_1.coords_br[1]
       /\ element.coords_tl[2] <= element_1.center[2]
       /\ element_1.center[2] <= element.coords_br[2]
    \/ /\ side = "left"
       /\ element_1.coords_tl[1] > element.coords_br[1]
       /\ element.coords_tl[2] <= element_1.center[2]
       /\ element_1.center[2] <= element.coords_br[2]
    \/ /\ side = "up"
       /\ element_1.coords_tl[2] < element.coords_br[2]
       /\ element.coords_tl[1] <= element_1.center[1]
       /\ element_1.center[1] <= element.coords_br[1]
    \/ /\ side = "down"
       /\ element_1.coords_br[2] > element.coords_tl[2]
       /\ element.coords_tl[1] <= element_1.center[1]
       /\ element_1.center[1] <= element.coords_br[1]

\* the test _find_rects_sides applies to one element; an unknown side appends nothing
SideTest(element_1, element, side) ==
    \/ /\ side = "right"
       /\ element.coords_tl[1] > element_1.coords_br[1]
       /\ element.coords_tl[2] < element_1.center[2]
       /\ element_1.center[2] < element.coords_br[2]
    \/ /\ side = "left"
       /\ element_1.coords_tl[1] > element.coords_br[1]
       /\ element.coords_tl[2] < element_1.center[2]
       /\ element_1.center[2] < element.coords_br[2]
    \/ /\ side = "up"
       /\ element_1.coords_tl[2] < element.coords_br[2]
       /\ element.coords_tl[1] < element_1.center[1]
       /\ element_1.center[1] < element.coords_br[1]
    \/ /\ side = "down"
       /\ element_1.coords_br[2] > element.coords_tl[2]
       /\ element.coords_tl[1] < element_1.center[1]
       /\ element_1.center[1] < element.coords_br[1]

_find_rects_sides(element_1, els, side) ==
    LET onside(element) == SideTest(element_1, element, side)
    IN SelectSeq(els, onside)

_find_overlapping_rects(rect1, sq_w_txt) ==
    LET overlaps(sq_txt) == _do_rect_share_space(rect1, sq_txt[1])
    IN SelectSeq(sq_w_txt, overlaps)

-----------------------------------------------------------------------------
(* The conversion pass *)

\* results[0].names: the detector's class names, by class id
names == <<<<"W", "n">>, <<"b">>>>

\* lines 144-161: the element of row i of result.boxes.data
DetElement(i, data) ==
    LET tl == <<int(data[1]), int(data[2])>>
        br == <<int(data[3]), int(data[4])>>
    IN POMElement(str(i), names[data[6] + 1], tl, br,
                  <<(br[1] + tl[1]) \div 2, (br[2] + tl[2]) \div 2>>,
                  boundingRect(tl, br), data[5], {})

\* results: one list of rows <<xmin, ymin, xmax, ymax, confidence, class_id>> per image
_object_detection(results) ==
    Flatten([r \in 1..Len(results) |->
                [i \in 1..Len(results[r]) |-> DetElement(i - 1, results[r][i])]])

\* lines 94-98: [[int coordinates of the first and third corner], text]
RefElementsTxt(output_txts) ==
    [k \in 1..Len(output_txts) |->
        <<<<int(output_txts[k][1][1][1]), int(output_txts[k][1][1][2]),
            int(output_txts[k][1][3][1]), int(output_txts[k][1][3][2])>>,
          output_txts[k][2]>>]

\* the text built without the final [:-1]: the space after the last text stays
FinalText_keeps_trailing_space(output_overlap) ==
    Flatten([k \in 1..Len(output_overlap) |-> output_overlap[k][2] \o <<" ">>])

\* lines 106-109: every overlapping text followed by a space, then [:-1]
FinalText(output_overlap) ==
    DropLast(Flatten([k \in 1..Len(output_overlap) |-> output_overlap[k][2] \o <<" ">>]))

\* the scan with "is_overlapping = self._do_rect_share_space(...)" in the inner
\* loop, so that only the last element decides
_find_non_overlapping_rects_last_decides(pom_els, ocr_els) ==
    LET is_overlapping(ocr_el) ==
            /\ Len(pom_els) > 0
            /\ _do_rect_share_space(RectOf(pom_els[Len(pom_els)]), ocr_el[1])
        free(ocr_el) == ~is_overlapping(ocr_el)
        kept == SelectSeq(ocr_els, free)
    IN [k \in 1..Len(kept) |->
           POMElement(<<>>, <<"o", "c", "r", "_", "e", "l", "e", "m", "e", "n", "t">>,
                      <<kept[k][1][1], kept[k][1][2]>>, <<kept[k][1][3], kept[k][1][4]>>,
                      <<(kept[k][1][1] + kept[k][1][3]) \div 2,
                        (kept[k][1][2] + kept[k][1][4]) \div 2>>,
                      boundingRect(<<kept[k][1][1], kept[k][1][2]>>,
                                   <<kept[k][1][3], kept[k][1][4]>>),
                      100, {<<"text", kept[k][2]>>})]

\* the synthesis with the center rounded up instead of down
_find_non_overlapping_rects_center_rounds_up(pom_els, ocr_els) ==
    LET is_overlapping(ocr_el) ==
            \E i \in 1..Len(pom_els) : _do_rect_share_space(RectOf(pom_els[i]), ocr_el[1])
        free(ocr_el) == ~is_overlapping(ocr_el)
        kept == SelectSeq(ocr_els, free)
    IN [k \in 1..Len(kept) |->
           POMElement(<<>>, <<"o", "c", "r", "_", "e", "l", "e", "m", "e", "n", "t">>,
                      <<kept[k][1][1], kept[k][1][2]>>, <<kept[k][1][3], kept[k][1][4]>>,
                      <<(kept[k][1][1] + kept[k][1][3] + 1) \div 2,
                        (kept[k][1][2] + kept[k][1][4] + 1) \div 2>>,
                      boundingRect(<<kept[k][1][1], kept[k][1][2]>>,
                                   <<kept[k][1][3], kept[k][1][4]>>),
                      100, {<<"text", kept[k][2]>>})]

_find_non_overlapping_rects(pom_els, ocr_els) ==
    LET is_overlapping(ocr_el) ==
            \E i \in 1..Len(pom_els) : _do_rect_share_space(RectOf(pom_els[i]), ocr_el[1])
        free(ocr_el) == ~is_overlapping(ocr_el)
        kept == SelectSeq(ocr_els, free)
    IN [k \in 1..Len(kept) |->
           POMElement(<<>>, <<"o", "c", "r", "_", "e", "l", "e", "m", "e", "n", "t">>,
                      <<kept[k][1][1], kept[k][1][2]>>, <<kept[k][1][3], kept[k][1][4]>>,
                      <<(kept[k][1][1] + kept[k][1][3]) \div 2,
                        (kept[k][1][2] + kept[k][1][4]) \div 2>>,
                      boundingRect(<<kept[k][1][1], kept[k][1][2]>>,
                                   <<kept[k][1][3], kept[k][1][4]>>),
                      100, {<<"text", kept[k][2]>>})]

\* the conversion with every ocr_element inserted at the front of the store
\* instead of appended
ConvertedStore_ocr_elements_first(results, props, output_txts) ==
    LET detected == _object_detection(results)
        ref_elements_txt == RefElementsTxt(output_txts)
        with_text == [i \in 1..Len(detected) |->
                         SetAttr(detected[i], "text",
                                 FinalText(_find_overlapping_rects(RectOf(detected[i]),
                                                                   ref_elements_txt)))]
        ocr_elements == _find_non_overlapping_rects(with_text, ref_elements_txt)
    IN IF bool(props)
       THEN [k \in 1..Len(ocr_elements) |->
                [ocr_elements[Len(ocr_elements) + 1 - k]
                     EXCEPT !.id = str(Len(with_text) + Len(ocr_elements) - k)]]
            \o with_text
       ELSE detected

\* the pass appending to the store the previous pass left, without
\* "self.elements = []" and with "+=" for "=" at line 87
ConvertedStore_appends(results, props, output_txts) ==
    LET detected == _object_detection(results)
        ref_elements_txt == RefElementsTxt(output_txts)
        with_text == [i \in 1..Len(detected) |->
                         SetAttr(detected[i], "text",
                                 FinalText(_find_overlapping_rects(RectOf(detected[i]),
                                                                   ref_elements_txt)))]
        ocr_elements == _find_non_overlapping_rects(with_text, ref_elements_txt)
    IN IF bool(props)
       THEN elements \o with_text \o [k \in 1..Len(ocr_elements) |->
                             [ocr_elements[k] EXCEPT !.id = str(Len(with_text) + k - 1)]]
       ELSE elements \o detected

\* the store convert_to_cvpom leaves for the detector output `results`, the
\* argument `props` and the reader output `output_txts`
ConvertedStore(results, props, output_txts) ==
    LET detected == _object_detection(results)
        ref_elements_txt == RefElementsTxt(output_txts)
        with_text == [i \in 1..Len(detected) |->
                         SetAttr(detected[i], "text",
                                 FinalText(_find_overlapping_rects(RectOf(detected[i]),
                                                                   ref_elements_txt)))]
        ocr_elements == _find_non_overlapping_rects(with_text, ref_elements_txt)
    IN IF bool(props)
       THEN with_text \o [k \in 1..Len(ocr_elements) |->
                             [ocr_elements[k] EXCEPT !.id = str(Len(with_text) + k - 1)]]
       ELSE detected

-----------------------------------------------------------------------------
(* The query engine *)

\* the match with only the value lower-cased when case_sensitive is false
_check_query_value_lowers_value_only(value, query_val) ==
    IF IsNone(query_val) THEN TRUE
    ELSE LET val == IF ~query_val.case_sensitive THEN lower(value) ELSE value
             expected == query_val.value
         IN IF query_val.contains THEN str_in(expected, val) ELSE expected = val

_check_query_value(value, query_val) ==
    IF IsNone(query_val) THEN TRUE
    ELSE LET val == IF ~query_val.case_sensitive THEN lower(value) ELSE value
             expected == IF ~query_val.case_sensitive THEN lower(query_val.value)
                         ELSE query_val.value
         IN IF query_val.contains THEN str_in(expected, val) ELSE expected = val

\* setattr(query, key, val): only the eight slots of Query are ever read
setattr(query, key, val) ==
    IF key \in (DOMAIN query) \ {"type"} THEN [query EXCEPT ![key] = val] ELSE query

\* lines 289-295: the QueryValue of a rule given as a dict that has "value"
RuleOf(item) ==
    QueryValue(GetItem(item, "value").v,
               IF HasKey(item, "case_sensitive") THEN bool(GetItem(item, "case_sensitive"))
               ELSE TRUE,
               IF HasKey(item, "contains") THEN bool(GetItem(item, "contains")) ELSE FALSE)

\* the loop of _parse_query with the recursive call wrapped in try/except: a
\* sub-query that fails to parse is skipped
RECURSIVE ParseItems_skips_failed_subquery(_, _, _)
ParseItems_skips_failed_subquery(d, i, query) ==
    IF i > Len(d.v) THEN query
    ELSE LET key == d.v[i][1]
             item == d.v[i][2]
         IN IF key = "label" \/ key = "text"
            THEN IF isinstance_dict(item)
                 THEN IF ~HasKey(item, "value")
                      THEN Exception("Query object doesn't have 'value' field")
                      ELSE ParseItems_skips_failed_subquery(d, i + 1,
                                                            setattr(query, key, RuleOf(item)))
                 ELSE ParseItems_skips_failed_subquery(d, i + 1,
                          setattr(query, key, QueryValue(item.v, TRUE, FALSE)))
            ELSE IF isinstance_dict(item)
                 THEN LET query_in == ParseItems_skips_failed_subquery(item, 1, Query)
                      IN IF query_in.type = "Exception"
                         THEN ParseItems_skips_failed_subquery(d, i + 1, query)
                         ELSE ParseItems_skips_failed_subquery(d, i + 1,
                                                               setattr(query, key, query_in))
                 ELSE ParseItems_skips_failed_subquery(d, i + 1, query)

\* the loop of _parse_query with an else branch that rejects a key that is not
\* a slot of Query
RECURSIVE ParseItems_rejects_unknown_keys(_, _, _)
ParseItems_rejects_unknown_keys(d, i, query) ==
    IF i > Len(d.v) THEN query
    ELSE LET key == d.v[i][1]
             item == d.v[i][2]
         IN IF key = "label" \/ key = "text"
            THEN IF isinstance_dict(item)
                 THEN IF ~HasKey(item, "value")
                      THEN Exception("Query object doesn't have 'value' field")
                      ELSE ParseItems_rejects_unknown_keys(d, i + 1,
                                                           setattr(query, key, RuleOf(item)))
                 ELSE ParseItems_rejects_unknown_keys(d, i + 1,
                          setattr(query, key, QueryValue(item.v, TRUE, FALSE)))
            ELSE IF key \notin {"child", "parent", "left", "right", "up", "down"}
                 THEN Exception("unknown key")
                 ELSE IF isinstance_dict(item)
                      THEN LET query_in == ParseItems_rejects_unknown_keys(item, 1, Query)
                           IN IF query_in.type = "Exception" THEN query_in
                              ELSE ParseItems_rejects_unknown_keys(d, i + 1,
                                                                   setattr(query, key, query_in))
                      ELSE ParseItems_rejects_unknown_keys(d, i + 1, query)

\* the loop of _parse_query from item i on; the result is a Query or the exception raised
RECURSIVE ParseItems(_, _, _)
ParseItems(d, i, query) ==
    IF i > Len(d.v) THEN query
    ELSE LET key == d.v[i][1]
             item == d.v[i][2]
         IN IF key = "label" \/ key = "text"
            THEN IF isinstance_dict(item)
                 THEN IF ~HasKey(item, "value")
                      THEN Exception("Query object doesn't have 'value' field")
                      ELSE ParseItems(d, i + 1, setattr(query, key, RuleOf(item)))
                 ELSE ParseItems(d, i + 1, setattr(query, key, QueryValue(item.v, TRUE, FALSE)))
            ELSE IF isinstance_dict(item)
                 THEN LET query_in == ParseItems(item, 1, Query)
                      IN IF query_in.type = "Exception" THEN query_in
                         ELSE ParseItems(d, i + 1, setattr(query, key, query_in))
                 ELSE ParseItems(d, i + 1, query)

_parse_query(d) == ParseItems(d, 1, Query)

\* the base test without lines 203-204: an element without text passes a text rule
BaseTest_keeps_textless(element, query) ==
    /\ _check_query_value(element.label, query.label)
    /\ (HasAttr(element, "text") => _check_query_value(Attr(element, "text"), query.text))

\* lines 198-211: the label and text test of one element
BaseTest(element, query) ==
    /\ _check_query_value(element.label, query.label)
    /\ ~(~IsNone(query.text) /\ ~HasAttr(element, "text"))
    /\ (HasAttr(element, "text") => _check_query_value(Attr(element, "text"), query.text))

\* the child block ending with list(dict.fromkeys(filtered_in)) like the others
ChildStep_dedups(filtered, filtered_child) ==
    fromkeys(Flatten([i \in 1..Len(filtered) |->
                         _find_contained_rects(filtered[i], filtered_child)]))

\* lines 216-219: the children of every filtered element, one after the other
ChildStep(filtered, filtered_child) ==
    Flatten([i \in 1..Len(filtered) |-> _find_contained_rects(filtered[i], filtered_child)])

\* lines 224-227
ParentStep(filtered, filtered_parent) ==
    LET contains_one(element) == Len(_find_contained_rects(element, filtered)) > 0
    IN fromkeys(SelectSeq(filtered_parent, contains_one))

\* a side block that keeps the candidates on the side of some filtered element,
\* in the candidates' order
SideStep_candidates_order(filtered, filtered_side, side) ==
    LET on_side(element) ==
            \E i \in 1..Len(filtered) :
                Len(_find_rects_sides(filtered[i], <<element>>, side)) > 0
    IN fromkeys(SelectSeq(filtered_side, on_side))

\* a side block ending with filtered = filtered_in, without the deduplication
SideStep_keeps_repeats(filtered, filtered_side, side) ==
    Flatten([i \in 1..Len(filtered) |-> _find_rects_sides(filtered[i], filtered_side, side)])

\* lines 232-235, 240-243, 248-251, 256-259
SideStep(filtered, filtered_side, side) ==
    fromkeys(Flatten([i \in 1..Len(filtered) |->
                         _find_rects_sides(filtered[i], filtered_side, side)]))

\* the left block placed before the parent block
RelationSteps_left_before_parent == <<"child", "left", "parent", "right", "up", "down">>

\* the order of the relation blocks of _filter_query (lines 214, 222, 230, 238, 246, 254)
RelationSteps == <<"child", "parent", "left", "right", "up", "down">>

RECURSIVE _filter_query(_, _)

\* the relation blocks with every block looping over the base-filtered list
\* instead of the list the previous block left
RECURSIVE ApplySteps_anchors_on_base(_, _, _, _)
ApplySteps_anchors_on_base(els, query, filtered, i) ==
    IF i > Len(RelationSteps) THEN filtered
    ELSE LET key == RelationSteps[i]
             keep(element) == BaseTest(element, query)
             base == SelectSeq(els, keep)
         IN IF IsNone(query[key]) THEN ApplySteps_anchors_on_base(els, query, filtered, i + 1)
            ELSE LET sub == _filter_query(els, query[key])
                     stepped == CASE key = "child" -> ChildStep(base, sub)
                                  [] key = "parent" -> ParentStep(base, sub)
                                  [] OTHER -> SideStep(base, sub, key)
                 IN ApplySteps_anchors_on_base(els, query, stepped, i + 1)

\* the relation blocks from block i on, applied to the working list `filtered`
RECURSIVE ApplySteps(_, _, _, _)
ApplySteps(els, query, filtered, i) ==
    IF i > Len(RelationSteps) THEN filtered
    ELSE LET key == RelationSteps[i]
         IN IF IsNone(query[key]) THEN ApplySteps(els, query, filtered, i + 1)
            ELSE LET sub == _filter_query(els, query[key])
                     stepped == CASE key = "child" -> ChildStep(filtered, sub)
                                  [] key = "parent" -> ParentStep(filtered, sub)
                                  [] OTHER -> SideStep(filtered, sub, key)
                 IN ApplySteps(els, query, stepped, i + 1)

\* POM._filter_query(query) on the store els
_filter_query(els, query) ==
    LET keep(element) == BaseTest(element, query)
    IN ApplySteps(els, query, SelectSeq(els, keep), 1)

\* get_elements handing out copies numbered by their place in the result
get_elements_ret_renumbers(els, qd) ==
    IF IsNone(qd) THEN List(els)
    ELSE LET query == _parse_query(qd)
             found == _filter_query(els, query)
         IN IF query.type = "Exception" THEN query
            ELSE List([k \in 1..Len(found) |-> [found[k] EXCEPT !.id = str(k - 1)]])

\* get_elements with "if not query_dict: return []" for its first test
get_elements_ret_none_empty(els, qd) ==
    IF IsNone(qd) THEN List(<<>>)
    ELSE LET query == _parse_query(qd)
         IN IF query.type = "Exception" THEN query ELSE List(_filter_query(els, query))

\* what POM.get_elements(qd) returns on the store els, or the exception it raises
get_elements_ret(els, qd) ==
    IF IsNone(qd) THEN List(els)
    ELSE LET query == _parse_query(qd)
         IN IF query.type = "Exception" THEN query ELSE List(_filter_query(els, query))

-----------------------------------------------------------------------------
(* Inputs *)

\* sequences of at most n items of S
SeqsUpTo(S, n) == UNION {[1..k -> S] : k \in 0..n}

\* rows of result.boxes.data, in half pixels:
\* a window (1,0)-(9,9), a window (2,1)-(8,7) inside it, a button (3,2)-(6,5)
\* inside both, and a thin button (0,2)-(0,6) left of all three
DetRows == {<<3, 1, 19, 19, 90, 0>>, <<4, 2, 16, 14, 80, 0>>,
            <<6, 4, 13, 11, 70, 1>>, <<0, 4, 1, 12, 60, 1>>}

\* reader output <<quadrilateral, text>>, in half pixels:
\* "Hi" at (4,3)-(5,4), inside the button, "a" at (11,3)-(12,5), right of the
\* windows and off every box,
\* and "b" at (9,9)-(10,10), which touches the corner (9,9) of the outer window
OcrRows == {<<<<<<9, 7>>, <<11, 7>>, <<11, 9>>, <<9, 9>>>>, <<"H", "i">>>>,
            <<<<<<22, 6>>, <<24, 6>>, <<24, 10>>, <<22, 10>>>>, <<"a">>>>,
            <<<<<<19, 19>>, <<21, 19>>, <<21, 21>>, <<19, 21>>>>, <<"b">>>>}

\* ocr_props arguments: None, the empty dict, {'paragraph': False}
OcrProps == {None, Dict(<<>>), Dict(<<<<"paragraph", Bool(FALSE)>>>>)}


\* label rules: exact "Wn", exact "b", exact "ocr_element", "w" anywhere whatever
\* the case, and a rule without "value"
LabelRules ==
    {Str(<<"W", "n">>), Str(<<"b">>),
     Str(<<"o", "c", "r", "_", "e", "l", "e", "m", "e", "n", "t">>),
     Dict(<<<<"value", Str(<<"w">>)>>, <<"case_sensitive", Bool(FALSE)>>,
            <<"contains", Bool(TRUE)>>>>),
     Dict(<<<<"case_sensitive", Bool(TRUE)>>>>)}

\* text rules: exact "Hi", "h" anywhere whatever the case, "h" anywhere, the empty
\* text, and a rule without "value"
TextRules ==
    {Str(<<"H", "i">>),
     Dict(<<<<"value", Str(<<"h">>)>>, <<"contains", Bool(TRUE)>>,
            <<"case_sensitive", Bool(FALSE)>>>>),
     Dict(<<<<"value", Str(<<"h">>)>>, <<"contains", Bool(TRUE)>>>>),
     Str(<<>>),
     Dict(<<<<"contains", Bool(TRUE)>>>>)}

\* query specifications without relation keys
LeafQueries ==
    {Dict(<<>>)}
    \cup {Dict(<<<<"label", l>>>>) : l \in LabelRules}
    \cup {Dict(<<<<"text", t>>>>) : t \in TextRules}
    \cup {Dict(<<<<"label", Str(<<"b">>)>>, <<"text", t>>>>) : t \in TextRules}

\* the sub-queries put under a relation key
SubQueries ==
    {Dict(<<>>), Dict(<<<<"label", Str(<<"W", "n">>)>>>>), Dict(<<<<"label", Str(<<"b">>)>>>>)}

RelationKeys == {"child", "parent", "left", "right", "up", "down"}

\* one relation key, after an optional label rule
OneRelation ==
    {base \o <<<<k, q>>>> : base \in {<<>>, <<<<"label", Str(<<"b">>)>>>>,
                                      <<<<"label", Str(<<"W", "n">>)>>>>},
                          k \in RelationKeys, q \in SubQueries}

\* two relation keys, in either order of appearance
TwoRelations ==
    UNION {{<<<<k1, Dict(<<>>)>>, <<k2, q>>>> :
                k2 \in RelationKeys \ {k1},
                q \in {Dict(<<>>), Dict(<<<<"label", Str(<<"b">>)>>>>)}} : k1 \in RelationKeys}

\* a relation key whose sub-query has a relation key itself, or a rule without "value"
Nested ==
    {<<<<k1, Dict(<<<<k2, q>>>>)>>>> :
         k1 \in {"child", "left"}, k2 \in {"parent", "right"},
         q \in {Dict(<<>>), Dict(<<<<"text", Dict(<<<<"contains", Bool(TRUE)>>>>)>>>>)}}

\* items _parse_query has no slot for: the key "foo" with a string, a mapping or
\* a mapping holding a rule without "value", and a relation key with a string
\* or None
StrayItems ==
    {<<"foo", Str(<<"b">>)>>,
     <<"foo", Dict(<<>>)>>,
     <<"foo", Dict(<<<<"label", Str(<<"b">>)>>>>)>>,
     <<"foo", Dict(<<<<"text", Dict(<<<<"contains", Bool(TRUE)>>>>)>>>>)>>,
     <<"child", Str(<<"b">>)>>,
     <<"left", None>>}

\* a stray item before or after nothing, a label rule or a relation key
WithStrayItem ==
    UNION {{<<it>> \o rest, rest \o <<it>>} :
               it \in StrayItems,
               rest \in {<<>>, <<<<"label", Str(<<"W", "n">>)>>>>,
                         <<<<"right", Dict(<<<<"label", Str(<<"b">>)>>>>)>>>>}}

\* a detector label with the synthesised elements for children or for parents
OcrElementRelations ==
    {<<<<"label", l>>,
       <<k, Dict(<<<<"label",
                     Str(<<"o", "c", "r", "_", "e", "l", "e", "m", "e", "n", "t">>)>>>>)>>>> :
         l \in {Str(<<"W", "n">>), Str(<<"b">>)}, k \in {"child", "parent"}}

\* the query_dict arguments of get_elements
QueryDicts ==
    {None} \cup LeafQueries
    \cup {Dict(items) : items \in OneRelation \cup TwoRelations \cup Nested \cup WithStrayItem
                                   \cup OcrElementRelations}

-----------------------------------------------------------------------------
(* The state machine *)

Init ==
    /\ elements = <<>>
    /\ predict_out \in {<<rows>> : rows \in SeqsUpTo(DetRows, MaxBoxes)}
    /\ readtext_out \in SeqsUpTo(OcrRows, MaxBoxes)
    /\ Len(predict_out[1]) + Len(readtext_out) <= MaxBoxes
    /\ ocr_props = None
    /\ query_dict = None
    /\ ret = None
    /\ fn_args = None
    /\ fn_ret = None
    /\ driver = None

\* line 95: whether self._reader.readtext raises.  For a source of one image
\* it returns readtext_out; what the reader does with a source of several
\* images is not decided by this code: it returns readtext_out or raises
ReadtextRaises(results, props) ==
    IF bool(props) /\ Len(results) > 1 THEN {FALSE, TRUE} ELSE {FALSE}

\* POM.convert_to_cvpom(source, ocr_props), called when no call is outstanding:
\* replaces the store and returns self; when the reader raises, the store holds
\* the detector's elements (line 87) and the exception reaches the caller
convert_to_cvpom ==
    \E props \in OcrProps :
        \E raises \in ReadtextRaises(predict_out, props) :
            /\ IsNone(ret)
            /\ elements' = IF raises THEN _object_detection(predict_out)
                           ELSE ConvertedStore(predict_out, props, readtext_out)
            /\ ocr_props' = props
            /\ query_dict' = None
            /\ ret' = IF raises THEN Exception("readtext") ELSE [type |-> "POM", v |-> <<>>]
            /\ UNCHANGED <<predict_out, readtext_out, fn_args, fn_ret, driver>>

\* get_elements filtering the store in place: self.elements is what it returns
get_elements_filters_in_place ==
    \E qd \in QueryDicts :
        /\ IsNone(ret)
        /\ query_dict' = qd
        /\ ret' = get_elements_ret(elements, qd)
        /\ elements' = IF ret'.type = "list" THEN ret'.v ELSE elements
        /\ UNCHANGED <<predict_out, readtext_out, ocr_props, fn_args, fn_ret, driver>>

\* POM.get_elements(query_dict), called when no call is outstanding
get_elements ==
    \E qd \in QueryDicts :
        /\ IsNone(ret)
        /\ query_dict' = qd
        /\ ret' = get_elements_ret(elements, qd)
        /\ UNCHANGED <<elements, predict_out, readtext_out, ocr_props, fn_args, fn_ret, driver>>

\* the caller takes what the call returned (or catches what it raised); the
\* library is synchronous, so the next call starts only after that
Return ==
    /\ ~IsNone(ret)
    /\ ret' = None
    /\ query_dict' = None
    /\ UNCHANGED <<elements, predict_out, readtext_out, ocr_props, fn_args, fn_ret, driver>>

Next == convert_to_cvpom \/ get_elements \/ Return

Spec == Init /\ [][Next]_vars

-----------------------------------------------------------------------------
(* Sources of several images: self.model.predict returns one result per image *)

\* the number of rows of all results together
NumRows(results) == Len(Flatten(results))

InitFrames ==
    /\ elements = <<>>
    /\ predict_out \in {results \in SeqsUpTo(SeqsUpTo(DetRows, MaxBoxes), MaxFrames) :
                            Len(results) >= 1 /\ NumRows(results) <= MaxBoxes}
    /\ readtext_out \in SeqsUpTo(OcrRows, MaxBoxes)
    /\ NumRows(predict_out) + Len(readtext_out) <= MaxBoxes
    /\ ocr_props = None
    /\ query_dict = None
    /\ ret = None
    /\ fn_args = None
    /\ fn_ret = None
    /\ driver = None

SpecFrames == InitFrames /\ [][Next]_vars

-----------------------------------------------------------------------------
(* String matching on its own: a value is matched against a rule item of a    *)
(* query specification, as _filter_query does for a label or a text           *)

\* the values and rule values: strings of at most MaxStrLen characters
MatchStrings == SeqsUpTo({"A", "a", "b"}, MaxStrLen)

\* the optional flag `key` of a rule dict: absent, True or False
FlagItems(key) == {<<>>, <<<<key, Bool(TRUE)>>>>, <<<<key, Bool(FALSE)>>>>}

\* rule items: no rule, a literal string, or a dict with "value" and optional flags
RuleItems ==
    {None}
    \cup {Str(e) : e \in MatchStrings}
    \cup {Dict(<<<<"value", Str(e)>>>> \o cs \o co) :
             e \in MatchStrings, cs \in FlagItems("case_sensitive"), co \in FlagItems("contains")}

\* the QueryValue _parse_query makes of a rule item (None for no rule)
ParsedRule(rule) ==
    IF IsNone(rule) THEN _parse_query(Dict(<<>>)).text
    ELSE _parse_query(Dict(<<<<"text", rule>>>>)).text

InitMatch ==
    /\ elements = <<>>
    /\ predict_out = <<<<>>>>
    /\ readtext_out = <<>>
    /\ ocr_props = None
    /\ query_dict = None
    /\ ret = None
    /\ fn_args \in {[type |-> "args", value |-> value, rule |-> rule] :
                       value \in MatchStrings, rule \in RuleItems}
    /\ fn_ret = None
    /\ driver = None

\* self._check_query_value(value, query_val) for the parsed rule
check_query_value ==
    /\ IsNone(fn_ret)
    /\ fn_ret' = Bool(_check_query_value(fn_args.value, ParsedRule(fn_args.rule)))
    /\ UNCHANGED <<elements, predict_out, readtext_out, ocr_props, query_dict, ret, fn_args,
                   driver>>

NextMatch == check_query_value

SpecMatch == InitMatch /\ [][NextMatch]_vars

-----------------------------------------------------------------------------
(* The rect predicates on their own: _do_rect_share_space and                *)
(* _do_rect1_contain_rect2 called with two rects [xmin, ymin, xmax, ymax]    *)

Coords == 0..MaxCoord

\* the rects [xmin, ymin, xmax, ymax] of boxes: xmin <= xmax and ymin <= ymax
AllRects ==
    {r \in Coords \X Coords \X Coords \X Coords : r[1] <= r[3] /\ r[2] <= r[4]}

\* what the helper fn returned
Returned(fn, value) == [type |-> "return", fn |-> fn, v |-> value]

InitRects ==
    /\ elements = <<>>
    /\ predict_out = <<<<>>>>
    /\ readtext_out = <<>>
    /\ ocr_props = None
    /\ query_dict = None
    /\ ret = None
    /\ fn_args \in {[type |-> "args", rect1 |-> rect1, rect2 |-> rect2] :
                       rect1 \in AllRects, rect2 \in AllRects}
    /\ fn_ret = None
    /\ driver = None

\* self._do_rect_share_space(rect1, rect2)
do_rect_share_space ==
    /\ IsNone(fn_ret)
    /\ fn_ret' = Returned("_do_rect_share_space",
                          _do_rect_share_space(fn_args.rect1, fn_args.rect2))
    /\ UNCHANGED <<elements, predict_out, readtext_out, ocr_props, query_dict, ret, fn_args,
                   driver>>

\* self._do_rect1_contain_rect2(rect1, rect2)
do_rect1_contain_rect2 ==
    /\ IsNone(fn_ret)
    /\ fn_ret' = Returned("_do_rect1_contain_rect2",
                          _do_rect1_contain_rect2(fn_args.rect1, fn_args.rect2))
    /\ UNCHANGED <<elements, predict_out, readtext_out, ocr_props, query_dict, ret, fn_args,
                   driver>>

NextRects == do_rect_share_space \/ do_rect1_contain_rect2

SpecRects == InitRects /\ [][NextRects]_vars

-----------------------------------------------------------------------------
(* The element finders on their own: _find_contained_rects and               *)
(* _find_rects_sides called with an element, a list of elements and a side   *)

\* an element with the box rect: the center is the floor midpoint, as in both
\* places that create elements (lines 154-157 and 424-427)
ElementOf(rect) ==
    POMElement(<<>>, <<"b">>, <<rect[1], rect[2]>>, <<rect[3], rect[4]>>,
               <<(rect[3] + rect[1]) \div 2, (rect[4] + rect[2]) \div 2>>,
               boundingRect(<<rect[1], rect[2]>>, <<rect[3], rect[4]>>), 100, {})

\* two fixed boxes: (1,1)-(2,2) and (0,0)-(2,2)
Marks == {<<1, 1, 2, 2>>, <<0, 0, 2, 2>>}

\* the lists of candidates: empty, any one box, or any one box before or after
\* a fixed box
CandidateLists ==
    {<<>>}
    \cup {<<ElementOf(c)>> : c \in AllRects}
    \cup {<<ElementOf(c), ElementOf(m)>> : c \in AllRects, m \in Marks}
    \cup {<<ElementOf(m), ElementOf(c)>> : c \in AllRects, m \in Marks}

\* the side arguments: the four sides _filter_query passes, and another string
Sides == {"left", "right", "up", "down", "above"}

InitFind ==
    /\ elements = <<>>
    /\ predict_out = <<<<>>>>
    /\ readtext_out = <<>>
    /\ ocr_props = None
    /\ query_dict = None
    /\ ret = None
    /\ \E rect1 \in AllRects, els \in CandidateLists, side \in Sides :
           fn_args = [type |-> "args", element_1 |-> ElementOf(rect1), elements |-> els,
                      side |-> side]
    /\ fn_ret = None
    /\ driver = None

\* self._find_contained_rects(element_1, elements)
find_contained_rects ==
    /\ IsNone(fn_ret)
    /\ fn_ret' = Returned("_find_contained_rects",
                          _find_contained_rects(fn_args.element_1, fn_args.elements))
    /\ UNCHANGED <<elements, predict_out, readtext_out, ocr_props, query_dict, ret, fn_args,
                   driver>>

\* self._find_rects_sides(element_1, elements, side)
find_rects_sides ==
    /\ IsNone(fn_ret)
    /\ fn_ret' = Returned("_find_rects_sides",
                          _find_rects_sides(fn_args.element_1, fn_args.elements,
                                            fn_args.side))
    /\ UNCHANGED <<elements, predict_out, readtext_out, ocr_props, query_dict, ret, fn_args,
                   driver>>

NextFind == find_contained_rects \/ find_rects_sides

SpecFind == InitFind /\ [][NextFind]_vars

-----------------------------------------------------------------------------
(* The driver (src/cv_pom/cv_pom_driver.py): every CVPOMDriver.element and    *)
(* CVPOMDriver.elements call takes a screenshot, runs a conversion pass on it *)
(* and queries the new store; swipe_to scrolls the screen between its calls   *)

\* swipe_to is called with a limit of 0..MaxLimit swipes
MaxLimit == 2

\* a number held by a keyword argument the driver never looks into
Number(n) == [type |-> "int", v |-> n]

\* line 11
empty_pom_element ==
    POMElement(<<>>, <<>>, <<0, 0>>, <<0, 0>>, <<0, 0>>, <<0, 0, 0, 0>>, 0, {})

\* CVPOMDriverElement(element, query, driver), lines 30-33: the element's fields
\* and the query it was looked up with
CVPOMDriverElement(element, query) ==
    [type |-> "CVPOMDriverElement", v |-> element, _query |-> query]

\* CVPOMPageDriver.element(query), lines 273-280, on the store els
CVPOMPageDriver_element(els, query) ==
    LET found == get_elements_ret(els, query)
    IN IF found.type = "Exception" THEN found
       ELSE IF Len(found.v) > 0 THEN CVPOMDriverElement(found.v[1], query)
       ELSE CVPOMDriverElement(empty_pom_element, query)

\* CVPOMPageDriver.elements(query), lines 282-285, on the store els
CVPOMPageDriver_elements(els, query) ==
    LET found == get_elements_ret(els, query)
    IN IF found.type = "Exception" THEN found
       ELSE List([i \in 1..Len(found.v) |-> CVPOMDriverElement(found.v[i], query)])

\* lines 308-312 (keys: "text") and 326-330 (keys: "text", "ocr_element"): the
\* ocr argument of the pass, or the KeyError of self.kwargs['ocr']
OcrArgument(query, keys, kwargs) ==
    IF \E k \in keys : HasKey(query, k)
    THEN IF bool(kwargs)
         THEN IF ~HasKey(kwargs, "ocr") THEN Exception("KeyError")
              ELSE IF bool(GetItem(kwargs, "ocr")) THEN GetItem(kwargs, "ocr")
              ELSE Dict(<<<<"paragraph", Bool(FALSE)>>>>)
         ELSE Dict(<<<<"paragraph", Bool(FALSE)>>>>)
    ELSE None

\* CVPOMDriver.elements(query), lines 326-333, on a screenshot for which the
\* detector gives `results` and the reader `output_txts`: the ocr argument, the
\* store the pass leaves and what the call returns or raises
CVPOMDriver_elements_on(results, output_txts, query) ==
    LET ocr == OcrArgument(query, {"text", "ocr_element"}, driver.kwargs)
        store == ConvertedStore(results, ocr, output_txts)
    IN IF ocr.type = "Exception"
       THEN [ocr |-> ocr_props, store |-> elements, ret |-> ocr]
       ELSE [ocr |-> ocr, store |-> store, ret |-> CVPOMPageDriver_elements(store, query)]

\* what the screen can show: nothing; a window with a button that reads "Hi";
\* a thin button with the text "a" beside it; a button without text
Screens ==
    {[predict_out |-> <<<<>>>>, readtext_out |-> <<>>],
     [predict_out |-> <<<<<<4, 2, 16, 14, 80, 0>>, <<6, 4, 13, 11, 70, 1>>>>>>,
      readtext_out |-> <<<<<<<<9, 7>>, <<11, 7>>, <<11, 9>>, <<9, 9>>>>, <<"H", "i">>>>>>],
     [predict_out |-> <<<<<<0, 4, 1, 12, 60, 1>>>>>>,
      readtext_out |-> <<<<<<<<22, 6>>, <<24, 6>>, <<24, 10>>, <<22, 10>>>>, <<"a">>>>>>],
     [predict_out |-> <<<<<<6, 4, 13, 11, 70, 1>>>>>>, readtext_out |-> <<>>]}

\* the keyword arguments the driver is constructed with: none, the reader's
\* paragraph mode, or a resize factor alone (the framework drivers read "resize")
Kwargs ==
    {Dict(<<>>),
     Dict(<<<<"ocr", Dict(<<<<"paragraph", Bool(TRUE)>>>>)>>>>),
     Dict(<<<<"resize", Number(2)>>>>)}

\* the queries handed to the driver: a label rule, a text rule, the label of
\* the synthesised elements alone and with the key "ocr_element", a text rule
\* under child, and a label rule without "value"
DriverQueries ==
    {Dict(<<<<"label", Str(<<"b">>)>>>>),
     Dict(<<<<"text", Str(<<"H", "i">>)>>>>),
     Dict(<<<<"label", Str(<<"o", "c", "r", "_", "e", "l", "e", "m", "e", "n", "t">>)>>>>),
     Dict(<<<<"label", Str(<<"o", "c", "r", "_", "e", "l", "e", "m", "e", "n", "t">>)>>,
            <<"ocr_element", Bool(TRUE)>>>>),
     Dict(<<<<"label", Str(<<"W", "n">>)>>,
            <<"child", Dict(<<<<"text", Str(<<"H", "i">>)>>>>)>>>>),
     Dict(<<<<"label", Dict(<<<<"case_sensitive", Bool(TRUE)>>>>)>>>>)}

\* no call is running
Idle(kwargs) ==
    [type |-> "CVPOMDriver", kwargs |-> kwargs, pc |-> "idle", self |-> None,
     limit |-> 0, i |-> 0, elements |-> <<>>, swipes |-> 0]

InitDriver ==
    /\ elements = <<>>
    /\ \E screen \in Screens :
           predict_out = screen.predict_out /\ readtext_out = screen.readtext_out
    /\ ocr_props = None
    /\ query_dict = None
    /\ ret = None
    /\ fn_args = None
    /\ fn_ret = None
    /\ driver \in {Idle(kwargs) : kwargs \in Kwargs}

\* CVPOMDriver.element(query), lines 308-315
CVPOMDriver_element ==
    \E query \in DriverQueries :
        LET ocr == OcrArgument(query, {"text"}, driver.kwargs)
            store == ConvertedStore(predict_out, ocr, readtext_out)
        IN /\ driver.pc = "idle"
           /\ IsNone(ret)
           /\ query_dict' = query
           /\ IF ocr.type = "Exception"
              THEN ret' = ocr /\ UNCHANGED <<elements, ocr_props>>
              ELSE /\ elements' = store
                   /\ ocr_props' = ocr
                   /\ ret' = CVPOMPageDriver_element(store, query)
           /\ UNCHANGED <<predict_out, readtext_out, fn_args, fn_ret, driver>>

\* CVPOMDriver.elements(query), lines 326-333
CVPOMDriver_elements ==
    \E query \in DriverQueries :
        LET call == CVPOMDriver_elements_on(predict_out, readtext_out, query)
        IN /\ driver.pc = "idle"
           /\ IsNone(ret)
           /\ query_dict' = query
           /\ elements' = call.store
           /\ ocr_props' = call.ocr
           /\ ret' = call.ret
           /\ UNCHANGED <<predict_out, readtext_out, fn_args, fn_ret, driver>>

\* CVPOMDriverElement.swipe_to(direction, limit), lines 159-160, on the element
\* the last call returned: the first look at the screen
swipe_to ==
    \E limit \in 0..MaxLimit :
        /\ driver.pc = "idle"
        /\ ret.type = "CVPOMDriverElement"
        /\ LET call == CVPOMDriver_elements_on(predict_out, readtext_out, ret._query)
           IN /\ query_dict' = ret._query
              /\ elements' = call.store
              /\ ocr_props' = call.ocr
              /\ IF call.ret.type = "Exception"
                 THEN ret' = call.ret /\ UNCHANGED driver
                 ELSE /\ ret' = None
                      /\ driver' = [driver EXCEPT !.pc = "swipe_to", !.self = ret,
                                                  !.limit = limit, !.i = 0,
                                                  !.elements = call.ret.v, !.swipes = 0]
        /\ UNCHANGED <<predict_out, readtext_out, fn_args, fn_ret>>

\* the loop of swipe_to going on while i <= limit
swipe_to_loop_once_more ==
    /\ driver.pc = "swipe_to"
    /\ Len(driver.elements) = 0 /\ driver.i <= driver.limit
    /\ \E screen \in Screens :
           LET call == CVPOMDriver_elements_on(screen.predict_out, screen.readtext_out,
                                               driver.self._query)
           IN /\ predict_out' = screen.predict_out
              /\ readtext_out' = screen.readtext_out
              /\ elements' = call.store
              /\ ocr_props' = call.ocr
              /\ IF call.ret.type = "Exception"
                 THEN ret' = call.ret /\ driver' = Idle(driver.kwargs)
                 ELSE /\ ret' = None
                      /\ driver' = [driver EXCEPT !.elements = call.ret.v, !.i = @ + 1,
                                                  !.swipes = @ + 1]
    /\ UNCHANGED <<query_dict, fn_args, fn_ret>>

\* one turn of the loop of swipe_to, lines 161-164: the swipe scrolls the
\* screen to whatever comes next, then the screen is looked at again
swipe_to_loop ==
    /\ driver.pc = "swipe_to"
    /\ Len(driver.elements) = 0 /\ driver.i < driver.limit
    /\ \E screen \in Screens :
           LET call == CVPOMDriver_elements_on(screen.predict_out, screen.readtext_out,
                                               driver.self._query)
           IN /\ predict_out' = screen.predict_out
              /\ readtext_out' = screen.readtext_out
              /\ elements' = call.store
              /\ ocr_props' = call.ocr
              /\ IF call.ret.type = "Exception"
                 THEN ret' = call.ret /\ driver' = Idle(driver.kwargs)
                 ELSE /\ ret' = None
                      /\ driver' = [driver EXCEPT !.elements = call.ret.v, !.i = @ + 1,
                                                  !.swipes = @ + 1]
    /\ UNCHANGED <<query_dict, fn_args, fn_ret>>

\* the end of swipe_to, lines 166-167: wait_visible() (lines 69-83) polls
\* elements(self._query) for a placeholder until the list is non-empty or the
\* timeout has passed, and returns a found element as it is
wait_visible ==
    /\ driver.pc = "swipe_to"
    /\ ~(Len(driver.elements) = 0 /\ driver.i < driver.limit)
    /\ IF driver.self.v.center = <<0, 0>>
       THEN LET call == CVPOMDriver_elements_on(predict_out, readtext_out, driver.self._query)
            IN /\ elements' = call.store
               /\ ocr_props' = call.ocr
               /\ ret' = IF call.ret.type = "list" /\ Len(call.ret.v) > 0
                         THEN call.ret.v[1]
                         ELSE Exception("not found")
       ELSE /\ ret' = driver.self
            /\ UNCHANGED <<elements, ocr_props>>
    /\ driver' = Idle(driver.kwargs)
    /\ UNCHANGED <<predict_out, readtext_out, query_dict, fn_args, fn_ret>>

NextDriver ==
    \/ CVPOMDriver_element
    \/ CVPOMDriver_elements
    \/ swipe_to
    \/ swipe_to_loop
    \/ wait_visible
    \/ Return

SpecDriver == InitDriver /\ [][NextDriver]_vars

\* every call that has started goes on: the driver runs in one thread
SpecDriverLive == SpecDriver /\ WF_vars(swipe_to_loop) /\ WF_vars(wait_visible)

-----------------------------------------------------------------------------
(* Properties *)

\* a get_elements call has returned or raised and the caller has not taken it yet
Queried == ret.type = "list" \/ ret.type = "Exception"

\* the keys of a dict
Keys(d) == {d.v[i][1] : i \in 1..Len(d.v)}

\* a label or text rule of the dict d is a mapping without "value"
RuleLacksValue(d) ==
    \E i \in 1..Len(d.v) :
        /\ d.v[i][1] \in {"label", "text"}
        /\ isinstance_dict(d.v[i][2])
        /\ ~HasKey(d.v[i][2], "value")

\* the query specification has no relation key and its rules are well formed
IsLeafQuery(d) ==
    /\ isinstance_dict(d)
    /\ Keys(d) \subseteq {"label", "text"}
    /\ ~RuleLacksValue(d)

\* the element passes the label rule and the text rule of the parsed query q
MatchesRules(element, q) ==
    /\ IsNone(q.label) \/ _check_query_value(element.label, q.label)
    /\ IsNone(q.text) \/ (/\ HasAttr(element, "text")
                          /\ _check_query_value(Attr(element, "text"), q.text))

\* the range of a sequence
Range(seq) == {seq[i] : i \in 1..Len(seq)}

\* no item occurs twice in the sequence
NoRepeats(seq) == \A i, j \in 1..Len(seq) : seq[i] = seq[j] => i = j

\* inner lies strictly inside outer: all four sides strictly within
StrictlyInside(inner, outer) ==
    /\ inner.coords_br[1] < outer.coords_br[1]
    /\ inner.coords_tl[1] > outer.coords_tl[1]
    /\ inner.coords_br[2] < outer.coords_br[2]
    /\ inner.coords_tl[2] > outer.coords_tl[2]

\* sideOf(anchor, candidate, side), image coordinates
SideOf(anchor, candidate, side) ==
    LET row == candidate.coords_tl[2] < anchor.center[2] /\ anchor.center[2] < candidate.coords_br[2]
        col == candidate.coords_tl[1] < anchor.center[1] /\ anchor.center[1] < candidate.coords_br[1]
    IN CASE side = "right" -> candidate.coords_tl[1] > anchor.coords_br[1] /\ row
         [] side = "left" -> anchor.coords_tl[1] > candidate.coords_br[1] /\ row
         [] side = "up" -> anchor.coords_tl[2] < candidate.coords_br[2] /\ col
         [] side = "down" -> anchor.coords_br[2] > candidate.coords_tl[2] /\ col

\* the stored elements that pass the label and text rules of the dict d, in store order
RuleMatches(d) ==
    LET isrule(kv) == kv[1] \in {"label", "text"}
        q == _parse_query(Dict(SelectSeq(d.v, isrule)))
        matches(element) == MatchesRules(element, q)
    IN SelectSeq(elements, matches)

\* d has well-formed rules, relation keys `keys` only, each with a leaf sub-query
HasRelations(d, keys) ==
    /\ isinstance_dict(d)
    /\ ~RuleLacksValue(d)
    /\ Keys(d) \ {"label", "text"} = keys
    /\ \A k \in keys : IsLeafQuery(GetItem(d, k))

\* the first occurrences of the items of seq, in order
RECURSIVE FirstOccurrences(_)
FirstOccurrences(seq) ==
    IF seq = <<>> THEN <<>>
    ELSE LET differs(x) == x # Head(seq)
         IN <<Head(seq)>> \o FirstOccurrences(SelectSeq(Tail(seq), differs))

\* the relation step of key k on the working list w with the candidates c
StepBy(k, w, c) ==
    CASE k = "child" -> ChildStep(w, c)
      [] k = "parent" -> ParentStep(w, c)
      [] OTHER -> SideStep(w, c, k)

\* the place of a relation key in child, parent, left, right, up, down
Rank(k) ==
    CASE k = "child" -> 1 [] k = "parent" -> 2 [] k = "left" -> 3
      [] k = "right" -> 4 [] k = "up" -> 5 [] k = "down" -> 6

\* the step of k1 and then the step of k2 on the base-filtered list of the query d
StepThenStep(d, k1, k2) ==
    StepBy(k2, StepBy(k1, RuleMatches(d), RuleMatches(GetItem(d, k1))),
           RuleMatches(GetItem(d, k2)))

\* C1: the relation steps are applied after the base filter in the order child,
\* parent, left, right, up, down, whatever the order of the keys in the
\* specification: a query with two relation keys returns the step of the key
\* that comes first in that order followed by the step of the other (parent
\* then left for a query with parent and left).
C1_FixedStepOrder ==
    \A k1, k2 \in RelationKeys :
        (Queried /\ Rank(k1) < Rank(k2) /\ HasRelations(query_dict, {k1, k2})) =>
            /\ ret.type = "list"
            /\ ret.v = StepThenStep(query_dict, k1, k2)

\* a query naming left before parent returned parent-then-left, a non-empty
\* list that left-then-parent does not give
C1_Witness ==
    /\ Queried
    /\ HasRelations(query_dict, {"parent", "left"})
    /\ query_dict.v[1][1] = "left"
    /\ query_dict.v[2][1] = "parent"
    /\ ret.v # <<>>
    /\ ret.v = StepThenStep(query_dict, "parent", "left")
    /\ ret.v # StepThenStep(query_dict, "left", "parent")

\* the parent candidates of d that strictly contain a base-matched element
ParentsOfBase(d) ==
    {p \in Range(RuleMatches(GetItem(d, "parent"))) :
        \E b \in Range(RuleMatches(d)) : StrictlyInside(b, p)}

\* C2: each relation step takes the previous step's output as its anchors and
\* replaces it: a query with parent and left returns the left candidates that
\* are sideOf-left of an element of the parent step's output (not of the
\* base-filtered list, and not the parents that are also left of something).
C2_StepsCompose ==
    (Queried /\ HasRelations(query_dict, {"parent", "left"})) =>
        /\ ret.type = "list"
        /\ NoRepeats(ret.v)
        /\ Range(ret.v) = {c \in Range(RuleMatches(GetItem(query_dict, "left"))) :
                              \E p \in ParentsOfBase(query_dict) : SideOf(p, c, "left")}

\* a query with parent and left returned elements none of which is a parent of
\* a base-matched element
C2_Witness ==
    /\ Queried
    /\ HasRelations(query_dict, {"parent", "left"})
    /\ ret.v # <<>>
    /\ Range(ret.v) \cap ParentsOfBase(query_dict) = {}

\* C3: the child step evaluates the sub-query on the full store and replaces the
\* working list with the concatenation, over the base-matched elements E in
\* order, of the candidates strictly inside E, without deduplication.
C3_ChildStep ==
    (Queried /\ HasRelations(query_dict, {"child"})) =>
        /\ ret.type = "list"
        /\ LET base == RuleMatches(query_dict)
               cands == RuleMatches(GetItem(query_dict, "child"))
               ChildrenOf(e) == LET inside(c) == StrictlyInside(c, e)
                                IN SelectSeq(cands, inside)
           IN ret.v = Flatten([i \in 1..Len(base) |-> ChildrenOf(base[i])])

\* a child query returned the same element twice: it lies inside two
\* base-matched elements
C3_Witness ==
    /\ Queried
    /\ HasRelations(query_dict, {"child"})
    /\ HasKey(query_dict, "label")
    /\ \E i, j \in 1..Len(ret.v) : i < j /\ ret.v[i] = ret.v[j]

\* C4: the parent step evaluates the sub-query on the full store and replaces
\* the working list with the candidates that strictly contain at least one of
\* its elements, each once, in the candidates' order.
C4_ParentStep ==
    (Queried /\ HasRelations(query_dict, {"parent"})) =>
        /\ ret.type = "list"
        /\ LET base == RuleMatches(query_dict)
               cands == RuleMatches(GetItem(query_dict, "parent"))
               contains_one(p) == \E i \in 1..Len(base) : StrictlyInside(base[i], p)
           IN ret.v = SelectSeq(cands, contains_one)

\* a parent query whose base filter excludes the candidates returned some of
\* the candidates and left out another
C4_Witness ==
    /\ Queried
    /\ HasRelations(query_dict, {"parent"})
    /\ ret.v # <<>>
    /\ Range(ret.v) \cap Range(RuleMatches(query_dict)) = {}
    /\ Range(RuleMatches(GetItem(query_dict, "parent"))) \ Range(ret.v) # {}

\* C5: the step of left, right, up or down replaces the working list W with the
\* first occurrences of the list that names, for each w of W in order, every
\* candidate c (sub-query on the full store) with sideOf(w, c, side).
C5_SideStep ==
    \A side \in {"left", "right", "up", "down"} :
        (Queried /\ HasRelations(query_dict, {side})) =>
            /\ ret.type = "list"
            /\ LET base == RuleMatches(query_dict)
                   cands == RuleMatches(GetItem(query_dict, side))
                   OnSideOf(w) == LET onside(c) == SideOf(w, c, side)
                                  IN SelectSeq(cands, onside)
               IN ret.v = FirstOccurrences(Flatten([i \in 1..Len(base) |-> OnSideOf(base[i])]))

\* a left query with several anchors returned a candidate once that is left of
\* two of them, and left out a candidate that is left of none
C5_Witness ==
    /\ Queried
    /\ HasRelations(query_dict, {"left"})
    /\ LET base == RuleMatches(query_dict)
           cands == RuleMatches(GetItem(query_dict, "left"))
       IN /\ \E i, j \in 1..Len(base) : \E c \in Range(ret.v) :
                 i < j /\ SideOf(base[i], c, "left") /\ SideOf(base[j], c, "left")
          /\ Range(cands) \ Range(ret.v) # {}
          /\ NoRepeats(ret.v)

\* C6: a query without relation keys returns, in store order, exactly the
\* elements whose label matches the label rule (if any) and which, if a text
\* rule is given, have a "text" attribute matching it; an element without
\* "text" is never returned under a text rule, and a query matching nothing
\* returns the empty list, not an error.
C6_BaseFilter ==
    (Queried /\ IsLeafQuery(query_dict)) =>
        /\ ret.type = "list"
        /\ LET q == _parse_query(query_dict)
               matches(element) == MatchesRules(element, q)
           IN ret.v = SelectSeq(elements, matches)

\* a text rule that matches the empty text met a non-empty store whose elements
\* all lack "text" (a pass without OCR), and nothing was returned
C6_Witness ==
    /\ Queried
    /\ IsLeafQuery(query_dict)
    /\ HasKey(query_dict, "text")
    /\ GetItem(query_dict, "text") = Str(<<>>)
    /\ Len(elements) > 0
    /\ \A i \in 1..Len(elements) : ~HasAttr(elements[i], "text")
    /\ ret = List(<<>>)

\* the flag `key` of a rule item, `default` when the item is a literal or lacks it
FlagOf(rule, key, default) ==
    IF isinstance_dict(rule) /\ HasKey(rule, key) THEN GetItem(rule, key).v ELSE default

\* the rule value of a rule item
ValueOf(rule) == IF isinstance_dict(rule) THEN GetItem(rule, "value").v ELSE rule.v

\* character c as the rule compares it
Folded(c, case_sensitive) ==
    IF case_sensitive THEN c
    ELSE CASE c = "A" -> "a" [] c = "B" -> "b" [] c = "H" -> "h" [] c = "W" -> "w" [] OTHER -> c

\* the rule value e occurs in the value at offset k, character by character
OccursAt(e, value, k, case_sensitive) ==
    /\ k + Len(e) <= Len(value)
    /\ \A j \in 1..Len(e) : Folded(value[k + j], case_sensitive) = Folded(e[j], case_sensitive)

\* C7: an absent rule always matches; otherwise both sides are lower-cased when
\* case_sensitive is false, and the match holds iff the rule value is a
\* substring of the value (contains true) or equal to it (contains false);
\* case_sensitive defaults to true and contains to false.
C7_StringMatching ==
    (fn_ret.type = "bool") =>
        LET rule == fn_args.rule
            value == fn_args.value
            cs == FlagOf(rule, "case_sensitive", TRUE)
            co == FlagOf(rule, "contains", FALSE)
        IN fn_ret.v =
             IF IsNone(rule) THEN TRUE
             ELSE IF co THEN \E k \in 0..Len(value) : OccursAt(ValueOf(rule), value, k, cs)
             ELSE Len(ValueOf(rule)) = Len(value) /\ OccursAt(ValueOf(rule), value, 0, cs)

\* the rule {value: "Ab", contains: true, case_sensitive: false} matched the
\* value "ab", which differs from it in case only
C7_Witness ==
    /\ fn_ret = Bool(TRUE)
    /\ isinstance_dict(fn_args.rule)
    /\ ValueOf(fn_args.rule) = <<"A", "b">>
    /\ fn_args.value = <<"a", "b">>
    /\ FlagOf(fn_args.rule, "contains", FALSE)
    /\ ~FlagOf(fn_args.rule, "case_sensitive", TRUE)

\* a label or text rule without "value" at the top of d or in a sub-query under
\* a relation key, at any depth
RECURSIVE HasRuleWithoutValue(_)
HasRuleWithoutValue(d) ==
    \/ RuleLacksValue(d)
    \/ \E i \in 1..Len(d.v) :
           /\ d.v[i][1] \in RelationKeys
           /\ isinstance_dict(d.v[i][2])
           /\ HasRuleWithoutValue(d.v[i][2])

\* C8: get_elements raises whenever a label or text rule given as a mapping
\* lacks "value", at the top level or in a sub-query nested under relation keys
\* at any depth; no list is returned and the store is unchanged.
C8_MalformedRaises ==
    [][(/\ IsNone(ret)
        /\ ret'.type \in {"list", "Exception"}
        /\ isinstance_dict(query_dict')
        /\ HasRuleWithoutValue(query_dict'))
       => (ret'.type = "Exception" /\ elements' = elements)]_vars

\* get_elements raised on a non-empty store for a rule without "value" two
\* relation keys deep
C8_Witness ==
    /\ ret.type = "Exception"
    /\ isinstance_dict(query_dict)
    /\ ~RuleLacksValue(query_dict)
    /\ \A i \in 1..Len(query_dict.v) :
           isinstance_dict(query_dict.v[i][2]) => ~RuleLacksValue(query_dict.v[i][2])
    /\ HasRuleWithoutValue(query_dict)
    /\ Len(elements) > 0

\* C9: get_elements(None) returns exactly the stored elements, all of them, in
\* their original order.
C9_NoneReturnsStore ==
    (ret.type = "list" /\ IsNone(query_dict)) => ret.v = elements

\* get_elements(None) returned a store of detector and OCR elements
C9_Witness ==
    /\ ret.type = "list"
    /\ IsNone(query_dict)
    /\ Len(elements) > Len(predict_out[1])
    /\ Len(predict_out[1]) > 1
    /\ ret.v = elements

\* the OCR fragments of the source: <<rect, text>>
Fragments == RefElementsTxt(readtext_out)

\* the number of detector elements of the source
NumDetected == Len(Flatten(predict_out))

\* the rectangles a and b meet or touch on both axes
ShareSpace(a, b) == a[1] <= b[3] /\ b[1] <= a[3] /\ a[2] <= b[4] /\ b[2] <= a[4]

\* the detector elements whose rectangle shares space with fragment k
Overlapped(k) ==
    {i \in 1..NumDetected : ShareSpace(RectOf(elements[i]), Fragments[k][1])}

\* the detector elements sharing space with fragment k whose text holds its text
MergedInto(k) ==
    {i \in Overlapped(k) :
        HasAttr(elements[i], "text") /\ str_in(Fragments[k][2], Attr(elements[i], "text"))}

\* the ocr_elements of the store made of a fragment equal to fragment k
OcrElementsOf(k) ==
    {j \in (NumDetected + 1)..Len(elements) :
        /\ elements[j].label = <<"o", "c", "r", "_", "e", "l", "e", "m", "e", "n", "t">>
        /\ RectOf(elements[j]) = Fragments[k][1]
        /\ elements[j].attrs = {<<"text", Fragments[k][2]>>}}

\* every fragment equal to fragment k has an ocr_element of its own
Materialised(k) ==
    Cardinality(OcrElementsOf(k)) = Cardinality({m \in 1..Len(Fragments) : Fragments[m] = Fragments[k]})

\* C10 as stated: after a pass with OCR every fragment is represented exactly
\* once, merged into the text of one detector element or materialised as one
\* ocr_element, and contributes its text to no more than one element.
C10_ExactlyOnce ==
    bool(ocr_props) =>
        \A k \in 1..Len(Fragments) :
            \/ Materialised(k) /\ MergedInto(k) = {}
            \/ OcrElementsOf(k) = {} /\ Cardinality(MergedInto(k)) = 1

\* C10 amended: after a pass with OCR every fragment is either merged into the
\* text of every detector element it shares space with (one or more) or, when
\* it shares space with none, materialised as one ocr_element of its own; none
\* is dropped, none is both, and the store holds no other ocr_element.
C10_MergedOrMaterialised ==
    bool(ocr_props) =>
        /\ \A k \in 1..Len(Fragments) :
               \/ Overlapped(k) = {} /\ Materialised(k) /\ MergedInto(k) = {}
               \/ Overlapped(k) # {} /\ OcrElementsOf(k) = {} /\ MergedInto(k) = Overlapped(k)
        /\ Len(elements) - NumDetected =
               Cardinality({k \in 1..Len(Fragments) : Overlapped(k) = {}})

\* after a pass with OCR a fragment is merged into the text of two detector
\* elements and is no ocr_element
C10_Witness ==
    /\ bool(ocr_props)
    /\ \E k \in 1..Len(Fragments) :
           Cardinality(MergedInto(k)) >= 2 /\ OcrElementsOf(k) = {}

\* the texts joined with one space between consecutive texts
RECURSIVE SpaceJoined(_)
SpaceJoined(texts) ==
    IF Len(texts) = 0 THEN <<>>
    ELSE IF Len(texts) = 1 THEN texts[1]
    ELSE texts[1] \o <<" ">> \o SpaceJoined(Tail(texts))

\* the texts of the fragments whose rectangle shares space with that of the
\* element at position i of the store, in fragment order
TextsSharing(i) ==
    LET shares(f) == ShareSpace(RectOf(elements[i]), f[1])
        sharing == SelectSeq(Fragments, shares)
    IN [k \in 1..Len(sharing) |-> sharing[k][2]]

\* C11: after a pass with OCR the "text" attribute of every detector element is
\* the texts of exactly the fragments whose rectangle shares space with the
\* element's, in fragment order, with a single space between consecutive texts
\* and no trailing space; it is the empty string when no fragment shares space.
C11_TextJoin ==
    bool(ocr_props) =>
        \A i \in 1..NumDetected :
            /\ HasAttr(elements[i], "text")
            /\ Attr(elements[i], "text") = SpaceJoined(TextsSharing(i))

\* after a pass with OCR a detector element carries the texts of two different
\* fragments, in fragment order, with one space between them
C11_Witness ==
    /\ bool(ocr_props)
    /\ \E i \in 1..NumDetected :
           /\ Len(TextsSharing(i)) = 2
           /\ TextsSharing(i)[1] # TextsSharing(i)[2]
           /\ Attr(elements[i], "text") = TextsSharing(i)[1] \o <<" ">> \o TextsSharing(i)[2]

\* the stored elements after the detector elements that are the ocr_element of
\* a fragment equal to fragment k: label, confidence 1.0, the fragment's
\* corners, the floor midpoint for center, and the fragment's text alone in attrs
SynthesisedFrom(k) ==
    LET rect == Fragments[k][1]
    IN {j \in (NumDetected + 1)..Len(elements) :
           /\ elements[j].label = <<"o", "c", "r", "_", "e", "l", "e", "m", "e", "n", "t">>
           /\ elements[j].confidence = 100
           /\ elements[j].coords_tl = <<rect[1], rect[2]>>
           /\ elements[j].coords_br = <<rect[3], rect[4]>>
           /\ 2 * elements[j].center[1] \in {rect[1] + rect[3], rect[1] + rect[3] - 1}
           /\ 2 * elements[j].center[2] \in {rect[2] + rect[4], rect[2] + rect[4] - 1}
           /\ elements[j].attrs = {<<"text", Fragments[k][2]>>}}

\* the fragments equal to fragment k (the reader may report a fragment twice)
SameFragments(k) == {m \in 1..Len(Fragments) : Fragments[m] = Fragments[k]}

\* a stored element with the label "ocr_element"
IsOcrElement(element) ==
    element.label = <<"o", "c", "r", "_", "e", "l", "e", "m", "e", "n", "t">>

\* C12: for every fragment whose rectangle shares space with no detector
\* element, and for no other fragment, the merge synthesises exactly one element
\* with label "ocr_element", confidence 1.0, the fragment's corners, the floor
\* midpoint of the corners for center and attrs {"text": the fragment's text}.
C12_OcrElementSynthesis ==
    bool(ocr_props) =>
        /\ \A k \in 1..Len(Fragments) :
               IF \E i \in 1..NumDetected : ShareSpace(RectOf(elements[i]), Fragments[k][1])
               THEN SynthesisedFrom(k) = {}
               ELSE Cardinality(SynthesisedFrom(k)) = Cardinality(SameFragments(k))
        /\ \A j \in 1..Len(elements) :
               IsOcrElement(elements[j]) =>
                   /\ j > NumDetected
                   /\ \E k \in 1..Len(Fragments) : j \in SynthesisedFrom(k)

\* after a pass with OCR one fragment of odd width has an ocr_element whose
\* center is the midpoint rounded down, and another fragment, which shares space
\* with a detector element, has none
C12_Witness ==
    /\ bool(ocr_props)
    /\ \E k, m \in 1..Len(Fragments) :
           /\ Cardinality(SynthesisedFrom(k)) = 1
           /\ (Fragments[k][1][1] + Fragments[k][1][3]) % 2 = 1
           /\ SynthesisedFrom(m) = {}
           /\ \E i \in 1..NumDetected : ShareSpace(RectOf(elements[i]), Fragments[m][1])

\* C13: after every conversion pass the elements of the store carry pairwise
\* distinct ids: the detector elements have the ids "0".."n-1" in detection
\* order and every synthesised ocr_element the next index, so that the element
\* at position k of the store (counted from 0) has the id str(k).
C13_SequentialIds ==
    (ret.type = "POM") =>
        /\ \A j, k \in 1..Len(elements) : elements[j].id = elements[k].id => j = k
        /\ \A k \in 1..Len(elements) : elements[k].id = str(k - 1)

\* for a source of one image the claim's case happens: a pass with OCR leaves
\* detector elements and ocr_elements numbered in sequence
C13_SingleImageCase ==
    /\ ret.type = "POM"
    /\ Len(predict_out) = 1
    /\ NumDetected >= 1
    /\ Len(elements) > NumDetected
    /\ \A k \in 1..Len(elements) : elements[k].id = str(k - 1)

\* the rows of the detector's output, in its order
Rows == Flatten(predict_out)

\* the fragments that share space with no detector row's box, in reader order
FreeFragments ==
    LET free(f) == \A i \in 1..Len(Rows) :
                       ~ShareSpace(<<Rows[i][1] \div 2, Rows[i][2] \div 2,
                                     Rows[i][3] \div 2, Rows[i][4] \div 2>>, f[1])
    IN SelectSeq(Fragments, free)

\* the stored element shows the box of the detector row
ShowsRow(element, row) ==
    /\ ~IsOcrElement(element)
    /\ element.label = names[row[6] + 1]
    /\ RectOf(element) = <<row[1] \div 2, row[2] \div 2, row[3] \div 2, row[4] \div 2>>
    /\ element.confidence = row[5]

\* the stored element is the ocr_element of the fragment
ShowsFragment(element, f) ==
    /\ IsOcrElement(element)
    /\ RectOf(element) = f[1]
    /\ element.attrs = {<<"text", f[2]>>}

\* C14: after every conversion pass the store lists all detector elements first,
\* in the detector's order, followed by the synthesised ocr_elements in the order
\* of their fragments; no synthesised element precedes a detector element and
\* the order within each group is the order of the input.
C14_StoreOrder ==
    (ret.type = "POM") =>
        /\ Len(elements) = Len(Rows) + (IF bool(ocr_props) THEN Len(FreeFragments) ELSE 0)
        /\ \A i \in 1..Len(Rows) : ShowsRow(elements[i], Rows[i])
        /\ \A j \in 1..(Len(elements) - Len(Rows)) :
               ShowsFragment(elements[Len(Rows) + j], FreeFragments[j])

\* a pass with OCR left a detector element followed by the ocr_elements of two
\* different fragments, the text "a" before the text "Hi" as the reader gave them
C14_Witness ==
    /\ ret.type = "POM"
    /\ bool(ocr_props)
    /\ Len(Rows) >= 1
    /\ Len(elements) = Len(Rows) + 2
    /\ Attr(elements[Len(Rows) + 1], "text") = <<"a">>
    /\ Attr(elements[Len(Rows) + 2], "text") = <<"H", "i">>

\* C15: after a pass in which OCR was requested (an ocr_props argument that
\* passes the test of line 90: a non-empty mapping) every element of the store
\* has a "text" attribute, also the detector elements no fragment overlaps (the
\* empty string) and also when the reader returned no fragment at all; after a
\* pass in which it was not requested (None or the empty mapping) no element
\* has one.
C15_TextPresence ==
    (ret.type = "POM") =>
        \A i \in 1..Len(elements) :
            HasAttr(elements[i], "text") <=> bool(ocr_props)

\* a pass with OCR whose reader returned no fragment left a non-empty store in
\* which every element has the empty text
C15_Witness ==
    /\ ret.type = "POM"
    /\ bool(ocr_props)
    /\ readtext_out = <<>>
    /\ Len(elements) >= 2
    /\ \A i \in 1..Len(elements) :
           HasAttr(elements[i], "text") /\ Attr(elements[i], "text") = <<>>

\* the helper fn has returned
HasReturned(fn) == fn_ret.type = "return" /\ fn_ret.fn = fn

\* the pixel (x, y) lies in the rect r, borders included
InRect(x, y, r) == r[1] <= x /\ x <= r[3] /\ r[2] <= y /\ y <= r[4]

\* the rects a and b have a pixel in common
CommonPixel(a, b) == \E x, y \in Coords : InRect(x, y, a) /\ InRect(x, y, b)

\* C16: shareSpace(a, b) is false exactly when a.xmax < b.xmin or a.xmin > b.xmax
\* or a.ymax < b.ymin or a.ymin > b.ymax, and true otherwise: rects that touch
\* only at an edge or a corner (they have a border pixel in common) share space,
\* rects one pixel apart on either axis do not.
C16_ShareSpace ==
    HasReturned("_do_rect_share_space") =>
        LET a == fn_args.rect1
            b == fn_args.rect2
        IN /\ fn_ret.v = ~(a[3] < b[1] \/ a[1] > b[3] \/ a[4] < b[2] \/ a[2] > b[4])
           /\ fn_ret.v = CommonPixel(a, b)
           /\ (a[3] + 1 = b[1] \/ b[3] + 1 = a[1] \/ a[4] + 1 = b[2] \/ b[4] + 1 = a[2])
                  => ~fn_ret.v

\* two boxes that have only a corner pixel in common, as [0,0,10,10] and
\* [10,10,12,12] do, were found to share space
C16_Witness ==
    /\ HasReturned("_do_rect_share_space")
    /\ fn_ret.v
    /\ fn_args.rect1 = <<0, 0, 2, 2>>
    /\ fn_args.rect2 = <<2, 2, 3, 3>>

\* C17: strictlyContains(outer, inner) holds iff inner.xmax < outer.xmax and
\* inner.xmin > outer.xmin and inner.ymax < outer.ymax and inner.ymin > outer.ymin,
\* all four strictly: a box that touches the outer box's boundary on any side is
\* not contained and no box contains itself; _find_contained_rects returns, in
\* input order, exactly the candidates strictly contained in the given element.
C17_StrictContainment ==
    HasReturned("_find_contained_rects") =>
        LET outer == fn_args.element_1
            contained(inner) ==
                /\ inner.coords_br[1] < outer.coords_br[1]
                /\ inner.coords_tl[1] > outer.coords_tl[1]
                /\ inner.coords_br[2] < outer.coords_br[2]
                /\ inner.coords_tl[2] > outer.coords_tl[2]
        IN /\ fn_ret.v = SelectSeq(fn_args.elements, contained)
           /\ \A i \in 1..Len(fn_ret.v) :
                  /\ fn_ret.v[i] # outer
                  /\ fn_ret.v[i].coords_tl[1] # outer.coords_tl[1]
                  /\ fn_ret.v[i].coords_tl[2] # outer.coords_tl[2]
                  /\ fn_ret.v[i].coords_br[1] # outer.coords_br[1]
                  /\ fn_ret.v[i].coords_br[2] # outer.coords_br[2]

\* of two candidates inside the box (0,0)-(3,3), the first, which touches its
\* right border, was left out and the second, (1,1)-(2,2), was returned
C17_Witness ==
    /\ HasReturned("_find_contained_rects")
    /\ RectOf(fn_args.element_1) = <<0, 0, 3, 3>>
    /\ Len(fn_args.elements) = 2
    /\ RectOf(fn_args.elements[1]) = <<1, 1, 3, 2>>
    /\ fn_ret.v = <<fn_args.elements[2]>>

\* C18: _find_rects_sides(anchor, candidates, side) returns, in input order,
\* exactly the candidates for which the side's condition holds: right:
\* candidate.tl.x > anchor.br.x, left: anchor.tl.x > candidate.br.x, each with
\* candidate.tl.y < anchor.center.y < candidate.br.y; up: anchor.tl.y <
\* candidate.br.y, down: anchor.br.y > candidate.tl.y, each with candidate.tl.x <
\* anchor.center.x < candidate.br.x.  A candidate beside the anchor as
\* (62,50,70,60) is beside (50,50,60,60) is returned for right only, one as
\* (40,50,48,60) for left only.
C18_FindRectsSides ==
    (HasReturned("_find_rects_sides") /\ fn_args.side \in {"left", "right", "up", "down"}) =>
        LET anchor == fn_args.element_1
            side == fn_args.side
            row(c) == c.coords_tl[2] < anchor.center[2] /\ anchor.center[2] < c.coords_br[2]
            col(c) == c.coords_tl[1] < anchor.center[1] /\ anchor.center[1] < c.coords_br[1]
            holds(c) ==
                \/ side = "right" /\ c.coords_tl[1] > anchor.coords_br[1] /\ row(c)
                \/ side = "left" /\ anchor.coords_tl[1] > c.coords_br[1] /\ row(c)
                \/ side = "up" /\ anchor.coords_tl[2] < c.coords_br[2] /\ col(c)
                \/ side = "down" /\ anchor.coords_br[2] > c.coords_tl[2] /\ col(c)
        IN /\ fn_ret.v = SelectSeq(fn_args.elements, holds)
           /\ RectOf(anchor) = <<1, 0, 1, 2>> =>
                  \A i \in 1..Len(fn_ret.v) :
                      /\ RectOf(fn_ret.v[i]) = <<2, 0, 3, 2>> => side = "right"
                      /\ RectOf(fn_ret.v[i]) = <<0, 0, 0, 2>> => side = "left"

\* for the anchor (1,0)-(1,2) and the side right, the candidate (2,0)-(3,2) was
\* returned and the candidate (0,0)-(2,2) after it, which is over the anchor,
\* was not
C18_Witness ==
    /\ HasReturned("_find_rects_sides")
    /\ fn_args.side = "right"
    /\ RectOf(fn_args.element_1) = <<1, 0, 1, 2>>
    /\ Len(fn_args.elements) = 2
    /\ RectOf(fn_args.elements[1]) = <<2, 0, 3, 2>>
    /\ RectOf(fn_args.elements[2]) = <<0, 0, 2, 2>>
    /\ fn_ret.v = <<fn_args.elements[1]>>

\* C19: a side token other than "left", "right", "up", "down" that reaches
\* _find_rects_sides is reported as an error that aborts the relation step: the
\* call does not return a result list.
C19_UnknownSideIsError ==
    ~(HasReturned("_find_rects_sides") /\ fn_args.side \notin {"left", "right", "up", "down"})

\* _find_rects_sides returned for the side "above" and two candidates: the
\* empty list
C19_Witness ==
    /\ HasReturned("_find_rects_sides")
    /\ fn_args.side = "above"
    /\ Len(fn_args.elements) = 2
    /\ fn_ret.v = <<>>

\* the item is one the claim calls skipped or ignored: a key that is no slot of
\* Query, or a relation key whose value is no mapping
IsStray(kv) ==
    \/ kv[1] \notin {"label", "text"} \cup RelationKeys
    \/ kv[1] \in RelationKeys /\ ~isinstance_dict(kv[2])

\* the specification d without its stray items
WithoutStray(d) ==
    LET kept(kv) == ~IsStray(kv)
    IN Dict(SelectSeq(d.v, kept))

\* a mapping under a key that is no slot of Query holds a label or text rule
\* without "value"
StrayMappingLacksValue(d) ==
    \E i \in 1..Len(d.v) :
        /\ d.v[i][1] \notin {"label", "text"} \cup RelationKeys
        /\ isinstance_dict(d.v[i][2])
        /\ RuleLacksValue(d.v[i][2])

\* get_elements was called with a specification that has a stray item and is
\* well formed without it
QueriedWithStray ==
    /\ Queried
    /\ isinstance_dict(query_dict)
    /\ \E i \in 1..Len(query_dict.v) : IsStray(query_dict.v[i])
    /\ get_elements_ret(elements, WithoutStray(query_dict)).type = "list"

\* C20 as stated: a key that is not one of label, text, child, parent, left,
\* right, up, down is skipped whatever its value, and a non-mapping value under
\* a relation key is ignored: get_elements raises no error and returns the same
\* result as for the specification without that key.
C20_StrayIgnored ==
    QueriedWithStray =>
        /\ ret.type = "list"
        /\ ret.v = get_elements_ret(elements, WithoutStray(query_dict)).v

\* C20 amended: a non-mapping value under a relation key or under a key that is
\* no slot of the query is ignored, and a mapping under such a key is parsed as
\* a sub-query whose result is never used: get_elements raises if that mapping
\* holds a label or text rule without "value", and otherwise returns the same
\* result as for the specification without that key.
C20_StrayIgnoredUnlessMalformed ==
    QueriedWithStray =>
        IF StrayMappingLacksValue(query_dict)
        THEN ret.type = "Exception"
        ELSE /\ ret.type = "list"
             /\ ret.v = get_elements_ret(elements, WithoutStray(query_dict)).v

\* a specification with a mapping under the key "foo" and a relation key
\* returned the non-empty result of the relation key alone
C20_Witness ==
    /\ QueriedWithStray
    /\ HasKey(query_dict, "foo")
    /\ isinstance_dict(GetItem(query_dict, "foo"))
    /\ HasKey(query_dict, "right")
    /\ ret.type = "list"
    /\ ret.v # <<>>
    /\ ret.v # elements

\* the items of seq appear in the order in which the store holds them (an
\* item may repeat)
InStoreOrder(seq) ==
    \A i, j \in 1..Len(seq) :
        i < j => \E p, q \in 1..Len(elements) :
                     p <= q /\ elements[p] = seq[i] /\ elements[q] = seq[j]

\* the place in `anchors` of the first anchor with sideOf(anchor, c, side)
FirstAnchor(anchors, c, side) ==
    CHOOSE i \in 1..Len(anchors) :
        /\ SideOf(anchors[i], c, side)
        /\ \A j \in 1..(i - 1) : ~SideOf(anchors[j], c, side)

HasStep(d, keys) ==
    /\ isinstance_dict(d)
    /\ \E i \in 1..Len(d.v) : d.v[i][1] \in keys /\ isinstance_dict(d.v[i][2])

QueryEvaluated == ret.type = "list" \/ (ret.type = "Exception" /\ ~IsNone(query_dict))

\* C23: evaluating a query never changes the store, whether the query returns
\* or raises and however deeply it is nested, and what it returns is a function
\* of the store and the specification alone, whatever was queried before.
C23_QueryLeavesStore ==
    [][(IsNone(ret) /\ QueryEvaluated') =>
           /\ elements' = elements
           /\ ret' = get_elements_ret(elements', query_dict')]_vars

\* a query with a relation step inside a relation step has raised, or returned
\* some and not all of the elements, on a store of several elements
C23_Witness ==
    /\ QueryEvaluated
    /\ Len(elements) > 1
    /\ \E k \in RelationKeys :
           /\ HasStep(query_dict, {k})
           /\ HasStep(GetItem(query_dict, k), RelationKeys)
    /\ \/ ret.type = "Exception"
       \/ ret.v # <<>> /\ Range(ret.v) # Range(elements)

\* C24 as stated: CVPOMDriver.element(query) does not fail: for any query it
\* returns the first element of the query result on the fresh store, or, when
\* no element matches, a placeholder (empty id and label, center (0, 0)), and
\* what it returns is bound to the same query.
C24_ElementNeverFails ==
    [][CVPOMDriver_element =>
           /\ ret'.type = "CVPOMDriverElement"
           /\ ret'._query = query_dict'
           /\ LET found == get_elements_ret(elements', query_dict')
              IN /\ found.type = "list"
                 /\ ret'.v = IF Len(found.v) = 0 THEN empty_pom_element ELSE found.v[1]]_vars

\* element() raised KeyError for a well-formed text query: the driver was
\* constructed with a keyword argument other than "ocr"
C24_Witness ==
    /\ ret = Exception("KeyError")
    /\ IsLeafQuery(query_dict)
    /\ HasKey(query_dict, "text")
    /\ driver.pc = "idle"
    /\ ~HasKey(driver.kwargs, "ocr")

\* C25: swipe_to(direction, limit) swipes at most `limit` times, looks at the
\* screen again after each swipe, swipes no more once a look has found an
\* element (not at all if the first look finds one), and comes to an end.
C25_SwipeToBounded ==
    /\ [](driver.pc = "swipe_to" =>
              /\ driver.swipes <= driver.limit
              /\ driver.elements = CVPOMDriver_elements_on(predict_out, readtext_out,
                                                           driver.self._query).ret.v)
    /\ [][(/\ driver.pc = "swipe_to"
            /\ (Len(driver.elements) > 0 \/ driver.swipes = driver.limit)) =>
              /\ predict_out' = predict_out
              /\ readtext_out' = readtext_out
              /\ driver'.pc = "idle"]_vars
    /\ (driver.pc = "swipe_to") ~> (driver.pc = "idle")

\* swipe_to with a limit of several swipes has found an element after its
\* first swipe
C25_Witness ==
    /\ driver.pc = "swipe_to"
    /\ driver.limit > 1
    /\ driver.swipes = 1
    /\ Len(driver.elements) > 0

\* the query specification has one of `keys` among its keys or among the keys
\* of a sub-query
RECURSIVE MentionsKey(_, _)
MentionsKey(query, keys) ==
    \E i \in 1..Len(query.v) :
        \/ query.v[i][1] \in keys
        \/ isinstance_dict(query.v[i][2]) /\ MentionsKey(query.v[i][2], keys)

\* C26 as stated: the driver's element(query) and elements(query) run the pass
\* with OCR for a query that has a text rule and without OCR for a query that
\* has none.
C26_OcrIffTextRule ==
    [][((CVPOMDriver_element \/ CVPOMDriver_elements) /\ ret' # Exception("KeyError")) =>
           (bool(ocr_props') <=> MentionsKey(query_dict', {"text"}))]_vars

\* element() returned the placeholder for a query with a text rule under child:
\* its pass ran without OCR, and with OCR the query matches on this screen
C26_Witness ==
    /\ ret.type = "CVPOMDriverElement"
    /\ ret.v = empty_pom_element
    /\ ~HasKey(query_dict, "text")
    /\ MentionsKey(query_dict, {"text"})
    /\ ~bool(ocr_props)
    /\ LET store == ConvertedStore(predict_out, Dict(<<<<"paragraph", Bool(FALSE)>>>>),
                                   readtext_out)
       IN get_elements_ret(store, query_dict).v # <<>>

\* a driver call has run a conversion pass and the caller has not taken its
\* result yet (or swipe_to is still running)
PassRan == ~IsNone(query_dict) /\ ret # Exception("KeyError")

\* C27: whatever passes ran before, after a pass the store holds the elements
\* of that pass alone: one element per box the detector gives for the current
\* screenshot, then (with OCR) one per fragment the reader gives for it that
\* shares space with no box, numbered from "0"; an element has a text exactly
\* when this pass ran OCR, made of the current fragments alone.
C27_PassReplacesStore ==
    PassRan =>
        /\ Len(elements) = Len(Rows) + (IF bool(ocr_props) THEN Len(FreeFragments) ELSE 0)
        /\ \A i \in 1..Len(Rows) :
               /\ ShowsRow(elements[i], Rows[i])
               /\ HasAttr(elements[i], "text") <=> bool(ocr_props)
               /\ bool(ocr_props) => Attr(elements[i], "text") = SpaceJoined(TextsSharing(i))
        /\ \A j \in 1..(Len(elements) - Len(Rows)) :
               ShowsFragment(elements[Len(Rows) + j], FreeFragments[j])
        /\ \A k \in 1..Len(elements) : elements[k].id = str(k - 1)

\* the third look of swipe_to, with OCR, found the text that its two looks at
\* other screens did not find: the store holds the two elements of the current
\* screen and nothing of the earlier passes
C27_Witness ==
    /\ PassRan
    /\ driver.pc = "swipe_to"
    /\ driver.swipes = 2
    /\ bool(ocr_props)
    /\ Len(driver.elements) > 0
    /\ Len(elements) = 2

\* the columns the box of the element covers
Columns(element) == {x \in Coords : element.coords_tl[1] <= x /\ x <= element.coords_br[1]}

\* C28: for boxes with topLeft <= bottomRight, a candidate that is left or
\* right of an anchor shares no column with it, no candidate is both left and
\* right of the same anchor, and the anchor is never left or right of itself.
C28_HorizontalSeparation ==
    (HasReturned("_find_rects_sides") /\ fn_args.side \in {"left", "right"}) =>
        LET anchor == fn_args.element_1
            other == IF fn_args.side = "left" THEN "right" ELSE "left"
        IN \A i \in 1..Len(fn_ret.v) :
               /\ Columns(fn_ret.v[i]) \cap Columns(anchor) = {}
               /\ _find_rects_sides(anchor, <<fn_ret.v[i]>>, other) = <<>>
               /\ fn_ret.v[i] # anchor

\* for the anchor (1,1)-(2,2) and the side left, of the candidates (1,1)-(2,2),
\* the anchor's own box, and (0,0)-(0,3) only the second was returned
C28_Witness ==
    /\ HasReturned("_find_rects_sides")
    /\ fn_args.side = "left"
    /\ RectOf(fn_args.element_1) = <<1, 1, 2, 2>>
    /\ Len(fn_args.elements) = 2
    /\ fn_args.elements[1] = fn_args.element_1
    /\ RectOf(fn_args.elements[2]) = <<0, 0, 0, 3>>
    /\ fn_ret.v = <<fn_args.elements[2]>>

\* the query asks for the ocr_elements inside (key "child") or around (key
\* "parent") the elements with a detector label
AsksOcrElementsBy(d, key) ==
    /\ HasRelations(d, {key})
    /\ HasKey(d, "label")
    /\ GetItem(d, "label").type = "str"
    /\ GetItem(d, "label").v \in Range(names)
    /\ GetItem(d, key) =
           Dict(<<<<"label", Str(<<"o", "c", "r", "_", "e", "l", "e", "m", "e", "n", "t">>)>>>>)

\* C29: no ocr_element of the store shares space with a detector element, so
\* none lies strictly inside one or strictly contains one, and a query for the
\* ocr_elements that are children, or parents, of the elements with a detector
\* label returns the empty list.
C29_OcrElementsApart ==
    /\ \A i, j \in 1..Len(elements) :
           (IsOcrElement(elements[i]) /\ ~IsOcrElement(elements[j])) =>
               /\ ~ShareSpace(RectOf(elements[i]), RectOf(elements[j]))
               /\ ~StrictlyInside(elements[i], elements[j])
               /\ ~StrictlyInside(elements[j], elements[i])
    /\ \A key \in {"child", "parent"} :
           (Queried /\ AsksOcrElementsBy(query_dict, key)) => ret = List(<<>>)

\* on a store with buttons and ocr_elements, the query for the ocr_elements
\* inside a button returned nothing
C29_Witness ==
    /\ Queried
    /\ AsksOcrElementsBy(query_dict, "child")
    /\ RuleMatches(query_dict) # <<>>
    /\ RuleMatches(GetItem(query_dict, "child")) # <<>>
    /\ ret = List(<<>>)

\* C30: every element get_elements returns is an element of the current
\* store, equal to it in every field, however deeply the query is nested; no
\* element is made up or altered by a query.
C30_ResultFromStore ==
    ret.type = "list" => Range(ret.v) \subseteq Range(elements)

\* a query with a relation step inside a relation step returned some of the
\* stored elements, one of them with a text, and not the first of the store
C30_Witness ==
    /\ ret.type = "list"
    /\ \E k \in RelationKeys :
           /\ HasStep(query_dict, {k})
           /\ HasStep(GetItem(query_dict, k), RelationKeys)
    /\ ret.v # <<>>
    /\ \E i \in 1..Len(ret.v) : HasAttr(ret.v[i], "text")
    /\ elements[1] \notin Range(ret.v)

====
